---- MODULE Spec2Model ----
(***************************************************************************)
(* Membership-inference scoring pipeline of mimir:                         *)
(*   - the Attack base class (mimir/attacks/all_attacks.py),               *)
(*   - PerturbationAttack (mimir/attacks/perturbation.py),                 *)
(*   - get_attackers, get_mia_scores and the driver                        *)
(*     (notebooks/new_mi_experiment.py).                                   *)
(*                                                                         *)
(* Conventions.  A text is a sequence of integers (its pieces); a document *)
(* is a text whose pieces are its substrings, and a single substring is a  *)
(* one-piece text.  Python's None / a missing keyword is the empty         *)
(* sequence and a present value x is <<x>>.  Dictionary keys are sequences *)
(* of strings: "ref-M" is <<"ref", "M">>, "ne-5" is <<"ne", "5">>.         *)
(* Every call the code makes on a model or a strategy is appended to log.  *)
(***************************************************************************)
EXTENDS Integers, Sequences, FiniteSets, TLC

VARIABLES
    config,        \* ExperimentConfig (read-only after Init)
    data,          \* data passed to get_mia_scores: records and neighbors
    pc,            \* position of the driver / of get_mia_scores
    target,        \* target model: "none", "constructed", "loaded"
    ref_models,    \* driver's ref_models dict: None or <<sequence of names>>
    models,        \* owned models (reference / perturbation): name -> state
    attackers,     \* attackers_dict: [keys: insertion order, obj: key -> Attack]
    neighbors,     \* get_mia_scores local: None or <<cache>>
    results,       \* get_mia_scores local: list of sample_information dicts
    batch,         \* get_mia_scores local: batch loop counter
    refpos,        \* get_mia_scores local: position in ref_models.items()
    rpos,          \* get_mia_scores local: position in results (reference pass)
    predictions,   \* returned PredictionTable: key -> list of scores
    samples,       \* returned samples
    run,           \* number of get_mia_scores calls started by the driver
    ncalls,        \* number of calls made on the strategy under test
    ret,           \* outcome of the last attack(): [raised, score]
    log            \* every model / strategy call, in execution order

vars == <<config, data, pc, target, ref_models, models, attackers, neighbors,
          results, batch, refpos, rpos, predictions, samples, run, ncalls,
          ret, log>>

---------------------------------------------------------------------------
(* Bounds *)
MaxCalls == 3
MaxDocs == 2
MaxRuns == 1

---------------------------------------------------------------------------
(* Python values *)
None == <<>>

Some(x) == <<x>>

IsNone(o) == Len(o) = 0

Val(o) == o[1]

RECURSIVE Sum(_)
Sum(s) == IF Len(s) = 0 THEN 0 ELSE Head(s) + Sum(Tail(s))

Range(s) == {s[i] : i \in DOMAIN s}

Last(s) == s[Len(s)]

MinOf(a, b) == IF a <= b THEN a ELSE b

\* **kwargs: the keywords present and their values
NoKwargs == [keys |-> {}, detokenized_sample |-> None, loss |-> None,
             substr_neighbors |-> None]

\* kwargs.get(name, None) for the two names the code reads
KwargsGetDetok(kwargs) ==
    IF "detokenized_sample" \in kwargs.keys THEN kwargs.detokenized_sample ELSE None

KwargsGetLoss(kwargs) ==
    IF "loss" \in kwargs.keys THEN kwargs.loss ELSE None

\* one entry of the call log
Event(op, who, at, document, tokens, probs, kwargs) ==
    [op |-> op, who |-> who, at |-> at, document |-> document,
     tokens |-> tokens, probs |-> probs, kwargs |-> kwargs]

Emit(w, op, who, document, tokens, probs, kwargs) ==
    [w EXCEPT !.log = Append(@, Event(op, who, w.at, document, tokens, probs, kwargs))]

---------------------------------------------------------------------------
(* Attack identifiers: class AllAttacks *)
LOSS == "loss"
REFERENCE_BASED == "ref"
PERTURBATION_BASED == "perturb"
ZLIB == "zlib"
MIN_K == "min_k"
MIN_K_PLUS_PLUS == "min_k++"
NEIGHBOR == "ne"
GRADNORM == "gradnorm"
RECALL == "recall"
DC_PDD == "dc_pdd"

AllAttacks == {LOSS, REFERENCE_BASED, PERTURBATION_BASED, ZLIB, MIN_K,
               MIN_K_PLUS_PLUS, NEIGHBOR, GRADNORM, RECALL, DC_PDD}

TargetName == <<"target">>

---------------------------------------------------------------------------
(* The model wrapper (mimir.models): text -> probabilities -> loss *)

\* tokenizer.decode: token ids -> text
Decode(tokens) == [i \in DOMAIN tokens |-> tokens[i] + 20]

\* Model.get_probabilities(text, tokens=None): one value per piece
ModelBias(name) ==
    CASE name = <<"target">> -> 0
      [] name = <<"A">> -> 1
      [] name = <<"B">> -> 2
      [] name = <<"o1", "M">> -> 4
      [] name = <<"o2", "M">> -> 5
      [] name = <<"P1">> -> 1
      [] name = <<"P2">> -> 4
      [] OTHER -> 7

ModelProbabilities(name, text) ==
    [i \in DOMAIN text |-> (3 + ModelBias(name)) * text[i]]

\* Model.get_ll(text, tokens, probs): the loss, from probs when given
ModelLL(name, text, probs) ==
    IF IsNone(probs) THEN Sum(ModelProbabilities(name, text)) ELSE Sum(Val(probs))

---------------------------------------------------------------------------
(* class Attack (all_attacks.py) and PerturbationAttack (perturbation.py).  *)
(* The operators work on a world w = [attackers, models, log, at, raised,   *)
(* score]: the strategies, the models they own, the call log, the place the *)
(* call is made from, and the outcome of the last attack().                 *)

NoScore == [num |-> 0, den |-> 0]

Float(n) == [num |-> n, den |-> 1]

\* the place a call is made from: the pass and the get_mia_scores run
At(pass) == [pass |-> pass, run |-> run]

World(objs, mods, lg, at) ==
    [attackers |-> objs, models |-> mods, log |-> lg, at |-> at,
     raised |-> "", score |-> NoScore]

\* Attack.__init__
AttackInit(cfg, kind, ref_model, perturb_models) ==
    [config |-> cfg, kind |-> kind, ref_model |-> ref_model,
     perturb_models |-> perturb_models, is_loaded |-> FALSE]

\* Model.load() / Model.unload() of an owned model
ModelLoad(w, m) ==
    [Emit(w, "model.load", m, None, None, None, NoKwargs)
        EXCEPT !.models[m].loaded = TRUE]

ModelUnload(w, m) ==
    [Emit(w, "model.unload", m, None, None, None, NoKwargs)
        EXCEPT !.models[m].loaded = FALSE]

\* for model in self.perturb_models: model.load()
RECURSIVE LoadEach(_, _)
LoadEach(w, S) ==
    IF S = {} THEN w
    ELSE LET m == CHOOSE x \in S : TRUE
         IN LoadEach(ModelLoad(w, m), S \ {m})

RECURSIVE UnloadEach(_, _)
UnloadEach(w, S) ==
    IF S = {} THEN w
    ELSE LET m == CHOOSE x \in S : TRUE
         IN UnloadEach(ModelUnload(w, m), S \ {m})

\* Attack.load, lines 40-42
LoadRefModel(w, k) ==
    IF ~IsNone(w.attackers[k].ref_model)
    THEN [ModelLoad(w, Val(w.attackers[k].ref_model))
              EXCEPT !.attackers[k].is_loaded = TRUE]
    ELSE w

\* Attack.load, lines 44-47
LoadPerturbModels(w, k) ==
    IF ~IsNone(w.attackers[k].perturb_models)
    THEN [LoadEach(w, Val(w.attackers[k].perturb_models))
              EXCEPT !.attackers[k].is_loaded = TRUE]
    ELSE w

\* Attack.load
Load(w, k) ==
    LoadPerturbModels(
        LoadRefModel(Emit(w, "load", k, None, None, None, NoKwargs), k), k)

UnloadRefModelKeepFlag(w, k) ==
    IF ~IsNone(w.attackers[k].ref_model)
    THEN ModelUnload(w, Val(w.attackers[k].ref_model))
    ELSE w

\* Attack.unload, lines 50-52
UnloadRefModel(w, k) ==
    IF ~IsNone(w.attackers[k].ref_model)
    THEN [ModelUnload(w, Val(w.attackers[k].ref_model))
              EXCEPT !.attackers[k].is_loaded = FALSE]
    ELSE w

\* Attack.unload, lines 54-57
UnloadPerturbModels(w, k) ==
    IF ~IsNone(w.attackers[k].perturb_models)
    THEN [UnloadEach(w, Val(w.attackers[k].perturb_models))
              EXCEPT !.attackers[k].is_loaded = FALSE]
    ELSE w

\* Attack.unload
Unload(w, k) ==
    UnloadPerturbModels(
        UnloadRefModel(Emit(w, "unload", k, None, None, None, NoKwargs), k), k)

---------------------------------------------------------------------------
(* Scoring functions *)

Raise(w, err) ==
    [Emit(w, "raise", <<err>>, None, None, None, NoKwargs) EXCEPT !.raised = err]

Return(w, score) == [w EXCEPT !.score = score]

\* <model>.get_ll(document, probs=probs, tokens=tokens), logged
GetLL(w, m, document, probs, tokens) ==
    Emit(w, "get_ll", m, document, tokens, probs, NoKwargs)

\* loss = kwargs.get('loss', None); if loss is None: loss = target.get_ll(...)
LossOrCompute(kwargs, document, probs) ==
    IF IsNone(KwargsGetLoss(kwargs))
    THEN ModelLL(TargetName, document, probs)
    ELSE Val(KwargsGetLoss(kwargs))

\* the call that computing the loss makes on the target model, if any
LogLossOrCompute(w, kwargs, document, probs, tokens) ==
    IF IsNone(KwargsGetLoss(kwargs))
    THEN GetLL(w, TargetName, document, probs, tokens)
    ELSE w

\* for perturb_model in self.perturb_models: perturb_loss += get_ll(...)
RECURSIVE PerturbLoop(_, _, _, _, _)
PerturbLoop(w, S, document, tokens, acc) ==
    IF S = {} THEN [w |-> w, perturb_loss |-> acc]
    ELSE LET m == CHOOSE x \in S : TRUE
         IN PerturbLoop(GetLL(w, m, document, None, tokens), S \ {m},
                        document, tokens, acc + ModelLL(m, document, None))

PerturbScoreNoMean(lp, loss, n) ==
    IF n = 0 THEN Raise(lp.w, "ZeroDivisionError")
    ELSE Return(lp.w, [num |-> loss - lp.perturb_loss, den |-> 1])

\* perturb_loss /= len(self.perturb_models); return loss - perturb_loss
PerturbScore(lp, loss, n) ==
    IF n = 0 THEN Raise(lp.w, "ZeroDivisionError")
    ELSE Return(lp.w, [num |-> loss * n - lp.perturb_loss, den |-> n])

\* PerturbationAttack._attack, lines 27-32
PerturbMean(w, k, loss, document, tokens) ==
    IF IsNone(w.attackers[k].perturb_models) THEN Raise(w, "TypeError")
    ELSE PerturbScore(PerturbLoop(w, Val(w.attackers[k].perturb_models),
                                  document, tokens, 0),
                      loss, Cardinality(Val(w.attackers[k].perturb_models)))

\* PerturbationAttack._attack
PerturbationAttack_attack(w, k, document, probs, tokens, kwargs) ==
    PerturbMean(LogLossOrCompute(w, kwargs, document, probs, tokens), k,
                LossOrCompute(kwargs, document, probs), document, tokens)

\* ReferenceAttack._attack: the target's loss against the reference model's
ReferenceAttack_attack(w, k, document, probs, tokens, kwargs) ==
    Return(GetLL(LogLossOrCompute(w, kwargs, document, probs, tokens),
                 Val(w.attackers[k].ref_model), document, None, tokens),
           Float(LossOrCompute(kwargs, document, probs)
                 - ModelLL(Val(w.attackers[k].ref_model), document, None)))

\* NeighborhoodAttack._attack: the loss against the cached neighbours'
NeighborhoodAttack_attack(w, k, document, probs, tokens, kwargs) ==
    Return(w, Float(LossOrCompute(kwargs, document, probs)
                    - Val(kwargs.substr_neighbors)))

KindBias(kind) ==
    CASE kind = LOSS -> 0
      [] kind = ZLIB -> 1
      [] kind = MIN_K -> 2
      [] OTHER -> 5

\* every other strategy: a score from the probabilities (or the loss)
OtherAttack_attack(w, k, document, probs, tokens, kwargs) ==
    Return(w, Float(KindBias(w.attackers[k].kind)
                    - (IF ~IsNone(probs) THEN Sum(Val(probs))
                       ELSE LossOrCompute(kwargs, document, probs))))

\* the scoring function of the strategy's class
Score_attack(w, k, document, probs, tokens, kwargs) ==
    CASE w.attackers[k].kind = PERTURBATION_BASED ->
            PerturbationAttack_attack(w, k, document, probs, tokens, kwargs)
      [] w.attackers[k].kind = REFERENCE_BASED ->
            ReferenceAttack_attack(w, k, document, probs, tokens, kwargs)
      [] w.attackers[k].kind = NEIGHBOR ->
            NeighborhoodAttack_attack(w, k, document, probs, tokens, kwargs)
      [] OTHER ->
            OtherAttack_attack(w, k, document, probs, tokens, kwargs)

\* self._attack(document, probs=..., tokens=..., **kwargs)
Attack_attack(w, k, document, probs, tokens, kwargs) ==
    Score_attack(Emit(w, "_attack", k, document, tokens, probs, kwargs),
                 k, document, probs, tokens, kwargs)

EnsureLoadedAlways(w, k) ==
    [Load(w, k) EXCEPT !.attackers[k].is_loaded = TRUE]

\* if not self.is_loaded: self.load(); self.is_loaded = True
EnsureLoaded(w, k) ==
    IF ~w.attackers[k].is_loaded
    THEN [Load(w, k) EXCEPT !.attackers[k].is_loaded = TRUE]
    ELSE w

AttackArgsNoSwap(pretokenized, document, detokenized_sample) ==
    IF ~pretokenized
    THEN [document |-> document, tokens |-> None]
    ELSE [document |-> document, tokens |-> Some(document)]

\* the arguments attack() hands to _attack: <<document, tokens>>
AttackArgs(pretokenized, document, detokenized_sample) ==
    IF ~pretokenized
    THEN [document |-> document, tokens |-> None]
    ELSE [document |-> Val(detokenized_sample), tokens |-> Some(document)]

\* self.config.pretokenized and detokenized_sample is None
MissingDetokenized(pretokenized, detokenized_sample) ==
    pretokenized /\ IsNone(detokenized_sample)

\* Attack.attack, lines 74-86
AttackScore(w, k, document, probs, kwargs) ==
    IF MissingDetokenized(w.attackers[k].config.pretokenized, KwargsGetDetok(kwargs))
    THEN Raise(w, "ValueError")
    ELSE Attack_attack(w, k,
             AttackArgs(w.attackers[k].config.pretokenized, document,
                        KwargsGetDetok(kwargs)).document,
             probs,
             AttackArgs(w.attackers[k].config.pretokenized, document,
                        KwargsGetDetok(kwargs)).tokens,
             kwargs)

\* Attack.attack
Attack(w, k, document, probs, kwargs) ==
    AttackScore(
        EnsureLoaded(Emit([w EXCEPT !.raised = "", !.score = NoScore],
                          "attack", k, document, None, probs, kwargs), k),
        k, document, probs, kwargs)

---------------------------------------------------------------------------
(* A single strategy driven by an arbitrary caller: load(), unload() and   *)
(* attack() in any order (specification SpecAttack).                       *)

OwnedModels == {<<"A">>, <<"B">>, <<"o1", "M">>, <<"o2", "M">>, <<"P1">>, <<"P2">>}

ModelsInit == [m \in OwnedModels |-> [loaded |-> FALSE]]

NoRet == [raised |-> "", score |-> NoScore]

Self == <<"self">>

\* the constructor calls a caller can make: kind, ref_model, perturb_models
Shapes ==
    { [kind |-> MIN_K, ref_model |-> None, perturb_models |-> None],
      [kind |-> REFERENCE_BASED, ref_model |-> Some(<<"A">>), perturb_models |-> None],
      [kind |-> PERTURBATION_BASED, ref_model |-> None, perturb_models |-> None],
      [kind |-> PERTURBATION_BASED, ref_model |-> None, perturb_models |-> Some({})],
      [kind |-> PERTURBATION_BASED, ref_model |-> None, perturb_models |-> Some({<<"P1">>})],
      [kind |-> PERTURBATION_BASED, ref_model |-> None,
       perturb_models |-> Some({<<"P1">>, <<"P2">>})],
      [kind |-> "custom", ref_model |-> Some(<<"A">>),
       perturb_models |-> Some({<<"P1">>})] }

TestDocument == <<1, 2>>

TestDetokenized == Decode(TestDocument)

\* the keyword arguments a caller can pass to attack(); a detokenized_sample
\* of None is told apart from an absent one where the value is used, that is
\* with pretokenized input
TestKwargs(pretokenized) ==
    { kw \in [keys : SUBSET {"detokenized_sample", "loss"},
              detokenized_sample : {None, Some(TestDetokenized)},
              loss : {None, Some(4)},
              substr_neighbors : {None}] :
        /\ ("detokenized_sample" \notin kw.keys) => IsNone(kw.detokenized_sample)
        /\ ("loss" \in kw.keys) <=> ~IsNone(kw.loss)
        /\ (~pretokenized /\ "detokenized_sample" \in kw.keys) =>
              ~IsNone(kw.detokenized_sample) }

TestProbs == {None, Some(ModelProbabilities(TargetName, TestDocument))}

InitAttack ==
    /\ config \in [pretokenized : BOOLEAN]
    /\ \E sh \in Shapes :
          attackers = [keys |-> <<Self>>,
                       obj |-> (Self :> AttackInit(config, sh.kind, sh.ref_model,
                                                   sh.perturb_models))]
    /\ models = ModelsInit
    /\ pc = "strategy"
    /\ ncalls = 0
    /\ ret = NoRet
    /\ log = <<>>
    /\ data = None
    /\ target = "loaded"
    /\ ref_models = None
    /\ neighbors = None
    /\ results = <<>>
    /\ batch = 0
    /\ refpos = 0
    /\ rpos = 0
    /\ predictions = <<>>
    /\ samples = <<>>
    /\ run = 0

PipelineVars == <<config, data, pc, target, ref_models, neighbors, results, batch,
                  refpos, rpos, predictions, samples, run>>

\* the world after a call becomes the state
Commit(w) ==
    /\ attackers' = [attackers EXCEPT !.obj = w.attackers]
    /\ models' = w.models
    /\ log' = w.log
    /\ ret' = [raised |-> w.raised, score |-> w.score]

CallLoad ==
    /\ pc = "strategy"
    /\ ncalls < MaxCalls
    /\ ncalls' = ncalls + 1
    /\ Commit(Load(World(attackers.obj, models, log, At("caller")), Self))
    /\ UNCHANGED PipelineVars

CallUnload ==
    /\ pc = "strategy"
    /\ ncalls < MaxCalls
    /\ ncalls' = ncalls + 1
    /\ Commit(Unload(World(attackers.obj, models, log, At("caller")), Self))
    /\ UNCHANGED PipelineVars

CallAttack ==
    /\ pc = "strategy"
    /\ ncalls < MaxCalls
    /\ ncalls' = ncalls + 1
    /\ \E probs \in TestProbs, kwargs \in TestKwargs(config.pretokenized) :
          Commit(Attack(World(attackers.obj, models, log, At("caller")), Self,
                        TestDocument, probs, kwargs))
    /\ UNCHANGED PipelineVars

NextAttack == CallLoad \/ CallUnload \/ CallAttack

SpecAttack == InitAttack /\ [][NextAttack]_vars

---------------------------------------------------------------------------
(* new_mi_experiment.py: dictionaries and keys *)

SampleKey == <<"sample">>

DetokenizedKey == <<"detokenized">>

\* f"{n_perturbation}" for the perturbation counts in use
FormatInt(n) ==
    CASE n = 5 -> "5"
      [] n = 10 -> "10"
      [] n = 25 -> "25"
      [] OTHER -> "n"

\* f"{BlackBoxAttacks.REFERENCE_BASED}-{name.split('/')[-1]}"; a name is the
\* sequence of its '/'-separated segments
RefKey(name) == <<REFERENCE_BASED, name[Len(name)]>>

NeighborKeyNoCount(attack, n_perturbation) == attack

\* f"{attack}-{n_perturbation}"
NeighborKey(attack, n_perturbation) == attack \o <<FormatInt(n_perturbation)>>

\* attack.startswith(BlackBoxAttacks.REFERENCE_BASED): of the identifiers in
\* use only "ref" and the "ref-<name>" keys start with "ref"
StartsWithReference(attack) == attack[1] = REFERENCE_BASED

\* d[key] = value on an insertion-ordered dict [keys, obj]
DictPut(d, key, value) ==
    IF key \in Range(d.keys)
    THEN [d EXCEPT !.obj[key] = value]
    ELSE [keys |-> Append(d.keys, key), obj |-> d.obj @@ (key :> value)]

EmptyDict == [keys |-> <<>>, obj |-> <<>>]

\* defaultdict(list): d[key].append(value)
ListAppend(d, key, value) ==
    IF key \in DOMAIN d
    THEN [d EXCEPT ![key] = Append(@, value)]
    ELSE d @@ (key :> <<value>>)

\* defaultdict(list): d[key].extend(values)
ListExtend(d, key, values) ==
    IF key \in DOMAIN d
    THEN [d EXCEPT ![key] = @ \o values]
    ELSE d @@ (key :> values)

---------------------------------------------------------------------------
(* get_attackers *)

\* a.value for a in BlackBoxAttacks
implemented_blackbox_attacks == AllAttacks

\* lines 49-55: line 54 appends every attack, whether or not line 51 found it
\* implemented; the unimplemented ones are only reported
RECURSIVE RunnableAttacks(_)
RunnableAttacks(attacks) ==
    IF Len(attacks) = 0 THEN <<>>
    ELSE <<Head(attacks)>> \o RunnableAttacks(Tail(attacks))

\* lines 58-61: attackers[attack] = get_attacker(attack)(config, target_model)
RECURSIVE InitializeAttackers(_, _, _)
InitializeAttackers(cfg, attacks, d) ==
    IF Len(attacks) = 0 THEN d
    ELSE LET attack == Head(attacks)
         IN InitializeAttackers(cfg, Tail(attacks),
                IF attack # REFERENCE_BASED
                THEN DictPut(d, <<attack>>, AttackInit(cfg, attack, None, None))
                ELSE d)

\* lines 64-69: one reference attacker per entry of ref_models
RECURSIVE InitializeReferenceAttackers(_, _, _)
InitializeReferenceAttackers(cfg, names, d) ==
    IF Len(names) = 0 THEN d
    ELSE LET name == Head(names)
         IN InitializeReferenceAttackers(cfg, Tail(names),
                DictPut(d, RefKey(name),
                        AttackInit(cfg, REFERENCE_BASED, Some(name), None)))

get_attackers(refs, cfg) ==
    LET attacks == RunnableAttacks(cfg.blackbox_attacks)
        d == InitializeAttackers(cfg, attacks, EmptyDict)
    IN IF ~IsNone(refs) THEN InitializeReferenceAttackers(cfg, Val(refs), d) ELSE d

\* the identifiers for which get_attacker has no strategy class
Unimplemented(attacks) ==
    {attacks[i] : i \in DOMAIN attacks} \ implemented_blackbox_attacks

---------------------------------------------------------------------------
(* get_mia_scores: the primary pass.  A loop state st = [w, info] carries   *)
(* the world and the sample_information of the document being scored; once  *)
(* w.raised is set the exception propagates and nothing more is done.       *)

Raised(w) == w.raised # ""

\* lines 108-112: the substrings of a document that are scored
Sample(cfg, doc) ==
    IF cfg.full_doc
    THEN [i \in 1..MinOf(cfg.max_substrs, Len(doc)) |-> <<doc[i]>>]
    ELSE <<doc>>

AttackKwargsNoLoss(cfg, detokenized_sample, i, loss) ==
    [keys |-> {"detokenized_sample"},
     detokenized_sample |-> IF cfg.pretokenized THEN Some(detokenized_sample[i]) ELSE None,
     loss |-> None,
     substr_neighbors |-> None]

\* lines 149-158 / 170-181: the keyword arguments of attacker.attack
AttackKwargs(cfg, detokenized_sample, i, loss) ==
    [keys |-> {"detokenized_sample", "loss"},
     detokenized_sample |-> IF cfg.pretokenized THEN Some(detokenized_sample[i]) ELSE None,
     loss |-> Some(loss),
     substr_neighbors |-> None]

\* `if neighbors`: None and an empty cache are both false
Truthy(nb) == ~IsNone(nb) /\ DOMAIN Val(nb) # {}

CacheIndexInBatch(b, batch_size, idx) == idx

\* the document position used to index the cache (0-based in the code)
CacheIndex(b, batch_size, idx) == b * batch_size + idx

\* neighbors[n_perturbation][batch * batch_size + idx][i]: the exception
\* the lookup raises, or "" when the entry exists
NeighborLookupError(cache, n, d, i) ==
    IF n \notin DOMAIN cache THEN "KeyError"
    ELSE IF d + 1 \notin DOMAIN cache[n] THEN "IndexError"
    ELSE IF i \notin DOMAIN cache[n][d + 1] THEN "IndexError"
    ELSE ""

\* sample_information[key].append(score), unless attack() raised
AppendScore(st, w1, key) ==
    IF Raised(w1) THEN [st EXCEPT !.w = w1]
    ELSE [w |-> w1, info |-> ListAppend(st.info, key, w1.score.num)]

\* lines 164-185: one perturbation count
NeighborStep(st, n_perturbation, ctx, attack, substr, probs, kwargs, i) ==
    IF Truthy(ctx.neighbors) /\ ~Val(ctx.cfg.neighborhood_config).dump_cache
    THEN IF NeighborLookupError(Val(ctx.neighbors), n_perturbation,
                                CacheIndex(ctx.batch, ctx.batch_size, ctx.idx), i) # ""
         THEN [st EXCEPT !.w =
                  Raise(st.w, NeighborLookupError(Val(ctx.neighbors), n_perturbation,
                            CacheIndex(ctx.batch, ctx.batch_size, ctx.idx), i))]
         ELSE AppendScore(st,
                  Attack(st.w, attack, substr, Some(probs),
                         [kwargs EXCEPT
                            !.keys = @ \cup {"batch_size", "substr_neighbors"},
                            !.substr_neighbors =
                                Some(Val(ctx.neighbors)[n_perturbation]
                                        [CacheIndex(ctx.batch, ctx.batch_size, ctx.idx) + 1][i])]),
                  NeighborKey(attack, n_perturbation))
    ELSE st

\* lines 162-185: for n_perturbation in n_perturbation_list
RECURSIVE PerturbationCountLoop(_, _, _, _, _, _, _, _)
PerturbationCountLoop(st, ns, ctx, attack, substr, probs, kwargs, i) ==
    IF Len(ns) = 0 \/ Raised(st.w) THEN st
    ELSE PerturbationCountLoop(
             NeighborStep(st, Head(ns), ctx, attack, substr, probs, kwargs, i),
             Tail(ns), ctx, attack, substr, probs, kwargs, i)

SkippedInPrimaryPassExact(attack) ==
    attack = <<REFERENCE_BASED>> \/ attack = <<LOSS>>

\* line 145: LOSS is already recorded, the reference attacks come later
SkippedInPrimaryPass(attack) ==
    StartsWithReference(attack) \/ attack = <<LOSS>>

\* lines 145-185: one attacker of attackers_dict
AttackStep(st, attack, ctx, substr, probs, kwargs, i) ==
    IF SkippedInPrimaryPass(attack) THEN st
    ELSE IF attack # <<NEIGHBOR>>
    THEN AppendScore(st, Attack(st.w, attack, substr, Some(probs), kwargs), attack)
    ELSE PerturbationCountLoop(st,
             Val(ctx.cfg.neighborhood_config).n_perturbation_list,
             ctx, attack, substr, probs, kwargs, i)

\* lines 143-185: for attack, attacker in attackers_dict.items()
RECURSIVE AttackLoop(_, _, _, _, _, _, _)
AttackLoop(st, keys, ctx, substr, probs, kwargs, i) ==
    IF Len(keys) = 0 \/ Raised(st.w) THEN st
    ELSE AttackLoop(AttackStep(st, Head(keys), ctx, substr, probs, kwargs, i),
                    Tail(keys), ctx, substr, probs, kwargs, i)

\* lines 123-139: get_probabilities, get_ll and the LOSS entry
RecordLoss(st, text, tokens, s_tk_probs, loss) ==
    [w |-> GetLL(Emit(st.w, "get_probabilities", TargetName, text, tokens,
                      None, NoKwargs),
                 TargetName, text, Some(s_tk_probs), tokens),
     info |-> ListAppend(st.info, <<LOSS>>, loss)]

\* lines 122-185: one substring, given its text and token ids
ScoreText(st, i, substr, text, tokens, detokenized_sample, ctx) ==
    AttackLoop(
        RecordLoss(st, text, tokens, ModelProbabilities(TargetName, text),
                   ModelLL(TargetName, text, Some(ModelProbabilities(TargetName, text)))),
        ctx.keys, ctx, substr, ModelProbabilities(TargetName, text),
        AttackKwargs(ctx.cfg, detokenized_sample, i,
                     ModelLL(TargetName, text, Some(ModelProbabilities(TargetName, text)))),
        i)

\* lines 122-185: one substring
ScoreSubstring(st, i, sample, detokenized_sample, ctx) ==
    IF ctx.cfg.pretokenized
    THEN ScoreText(st, i, sample[i], detokenized_sample[i], Some(sample[i]),
                   detokenized_sample, ctx)
    ELSE ScoreText(st, i, sample[i], sample[i], None, detokenized_sample, ctx)

\* lines 121-185: for i, substr in enumerate(sample)
RECURSIVE SubstringLoop(_, _, _, _, _)
SubstringLoop(st, i, sample, detokenized_sample, ctx) ==
    IF i > Len(sample) \/ Raised(st.w) THEN st
    ELSE SubstringLoop(ScoreSubstring(st, i, sample, detokenized_sample, ctx),
                       i + 1, sample, detokenized_sample, ctx)

\* lines 115-118: sample_information before the substring loop
NewSampleInformation(cfg, sample, detokenized_sample) ==
    IF cfg.pretokenized
    THEN (SampleKey :> sample) @@ (DetokenizedKey :> detokenized_sample)
    ELSE (SampleKey :> sample)

\* line 117: [target_model.tokenizer.decode(s) for s in sample]
DecodeAll(sample) == [i \in DOMAIN sample |-> Decode(sample[i])]

\* line 189: results.append(sample_information), unless the loop raised
AppendResult(acc, st) ==
    IF Raised(st.w) THEN [acc EXCEPT !.w = st.w]
    ELSE [w |-> st.w, results |-> Append(acc.results, st.info)]

\* lines 107-189: one document, given its sample
ScoreSample(acc, sample, ctx) ==
    AppendResult(acc,
        SubstringLoop([w |-> acc.w,
                       info |-> NewSampleInformation(ctx.cfg, sample, DecodeAll(sample))],
                      1, sample, DecodeAll(sample), ctx))

\* lines 107-189: one document of the batch; acc = [w, results]
ScoreDocument(acc, doc, ctx) == ScoreSample(acc, Sample(ctx.cfg, doc), ctx)

\* lines 106-189: for idx in range(len(texts))
RECURSIVE DocumentLoop(_, _, _, _)
DocumentLoop(acc, idx, texts, ctx) ==
    IF idx >= Len(texts) \/ Raised(acc.w) THEN acc
    ELSE DocumentLoop(ScoreDocument(acc, texts[idx + 1], [ctx EXCEPT !.idx = idx]),
                      idx + 1, texts, ctx)

BatchTextsSkipFirst(records, b, batch_size) ==
    SubSeq(records, b * batch_size + 2, MinOf((b + 1) * batch_size, Len(records)))

\* line 103: data["records"][batch * batch_size : (batch + 1) * batch_size]
BatchTexts(records, b, batch_size) ==
    SubSeq(records, b * batch_size + 1, MinOf((b + 1) * batch_size, Len(records)))

\* line 85 and line 102: math.ceil(n_samples / batch_size)
NumSamples(d) == IF IsNone(d.n_samples) THEN Len(d.records) ELSE Val(d.n_samples)

NumBatches(d) == (NumSamples(d) + d.batch_size - 1) \div d.batch_size

---------------------------------------------------------------------------
(* get_mia_scores: the reference pass and the aggregation *)

\* line 207: ref_model_scores.append(score), unless attack() raised
AppendRefScore(st, w1) ==
    IF Raised(w1) THEN [st EXCEPT !.w = w1]
    ELSE [w |-> w1, scores |-> Append(st.scores, w1.score.num)]

\* lines 203-206: the text and the keywords of the reference attack() call
ReferenceText(r, i, cfg) ==
    IF cfg.pretokenized THEN r[DetokenizedKey][i] ELSE r[SampleKey][i]

ReferenceKwargs(r, i) ==
    [NoKwargs EXCEPT !.keys = {"loss"}, !.loss = Some(r[<<LOSS>>][i])]

\* lines 202-207: for i, s in enumerate(r["sample"]); st = [w, scores]
RECURSIVE ReferenceSubstringLoop(_, _, _, _, _)
ReferenceSubstringLoop(st, i, r, ref_key, cfg) ==
    IF i > Len(r[SampleKey]) \/ Raised(st.w) THEN st
    ELSE ReferenceSubstringLoop(
             AppendRefScore(st, Attack(st.w, ref_key, ReferenceText(r, i, cfg), None,
                                       ReferenceKwargs(r, i))),
             i + 1, r, ref_key, cfg)

\* line 208: r[ref_key].extend(ref_model_scores), unless attack() raised
ExtendRefScores(st, r, ref_key) ==
    [w |-> st.w,
     r |-> IF Raised(st.w) THEN r ELSE ListExtend(r, ref_key, st.scores)]

\* lines 201-208: the body of `for r in results`; the result is [w, r]
ReferenceDocument(w, r, ref_key, cfg) ==
    ExtendRefScores(
        ReferenceSubstringLoop([w |-> w, scores |-> <<>>], 1, r, ref_key, cfg),
        r, ref_key)

\* np.min(scores)
NpMinMax(scores) ==
    CHOOSE m \in Range(scores) : \A x \in Range(scores) : x <= m

NpMin(scores) ==
    CHOOSE m \in Range(scores) : \A x \in Range(scores) : m <= x

\* line 221: the keys of a sample_information that are aggregated
AggregatedKeys(r) == (DOMAIN r) \ {SampleKey, DetokenizedKey}

\* lines 220-223: predictions[attack].append(np.min(scores)) for one r
AggregateDocument(preds, r) ==
    [attack \in (DOMAIN preds) \cup AggregatedKeys(r) |->
        (IF attack \in DOMAIN preds THEN preds[attack] ELSE <<>>)
        \o (IF attack \in AggregatedKeys(r) THEN <<NpMin(r[attack])>> ELSE <<>>)]

\* lines 216-223: for r in results
RECURSIVE AggregatePredictions(_, _)
AggregatePredictions(preds, rs) ==
    IF Len(rs) = 0 THEN preds
    ELSE AggregatePredictions(AggregateDocument(preds, Head(rs)), Tail(rs))

\* line 219: samples.append(r["sample"])
AggregateSamples(rs) == [k \in DOMAIN rs |-> rs[k][SampleKey]]

\* np.min of an empty sequence raises ValueError
AggregationFails(rs) ==
    \E k \in DOMAIN rs : \E attack \in AggregatedKeys(rs[k]) : Len(rs[k][attack]) = 0

---------------------------------------------------------------------------
(* The driver (__main__) running get_attackers and get_mia_scores           *)
(* (specification Spec).                                                    *)

Bogus == "bogus"

AttackLists ==
    { <<LOSS, MIN_K>>,
      <<ZLIB, NEIGHBOR>>,
      <<LOSS, REFERENCE_BASED>>,
      <<MIN_K, NEIGHBOR, REFERENCE_BASED>>,
      <<LOSS, Bogus>> }

NeighborhoodConfigs ==
    {None} \cup
    { Some([n_perturbation_list |-> ns, load_from_cache |-> l, dump_cache |-> d]) :
        ns \in {<<5>>, <<5, 10>>}, l \in BOOLEAN, d \in BOOLEAN }

ReferenceConfigs ==
    {None} \cup
    { Some([models |-> ms]) :
        ms \in { << <<"A">> >>, << <<"A">>, <<"B">> >>,
                 << <<"o1", "M">>, <<"o2", "M">> >> } }

\* the configurations explored; settings that the chosen attacks never read
\* are kept to a few representatives
Configs ==
    { c \in [pretokenized : BOOLEAN, full_doc : BOOLEAN, max_substrs : {1, 2},
             blackbox_attacks : AttackLists,
             neighborhood_config : NeighborhoodConfigs,
             ref_config : ReferenceConfigs] :
        /\ c.full_doc \/ c.max_substrs = 2
        /\ NEIGHBOR \notin Range(c.blackbox_attacks) =>
              \/ IsNone(c.neighborhood_config)
              \/ /\ Val(c.neighborhood_config).n_perturbation_list = <<5>>
                 /\ Val(c.neighborhood_config).load_from_cache
                      = Val(c.neighborhood_config).dump_cache
        /\ REFERENCE_BASED \notin Range(c.blackbox_attacks) =>
              \/ IsNone(c.ref_config)
              \/ /\ Val(c.ref_config).models = << <<"A">> >>
                 /\ NEIGHBOR \notin Range(c.blackbox_attacks)
        /\ {NEIGHBOR, REFERENCE_BASED} \subseteq Range(c.blackbox_attacks) =>
              /\ ~IsNone(c.ref_config)
              /\ Val(c.ref_config).models = << <<"A">>, <<"B">> >> }

\* documents: one substring, or three
DocSet == {<<2>>, <<3, 1, 2>>}

Records == UNION {[1..n -> DocSet] : n \in 0..MaxDocs}

\* the value cached for perturbation count n, document d, substring i
NeighborValue(n, d, i) == 100 * n + 10 * d + i

CompleteCache(records, ns) ==
    [n \in Range(ns) |->
        [d \in 1..Len(records) |->
            [i \in 1..Len(records[d]) |-> NeighborValue(n, d, i)]]]

\* data["neighbors"]: missing, empty, complete, or lacking the last
\* perturbation count or the last document
Caches(records, ns) ==
    LET full == CompleteCache(records, ns)
    IN { None, Some(<<>>), Some(full),
         Some([n \in (DOMAIN full) \ {Last(ns)} |-> full[n]]),
         Some([n \in DOMAIN full |-> SubSeq(full[n], 1, Len(records) - 1)]) }

ReadsCache(c) ==
    /\ NEIGHBOR \in Range(c.blackbox_attacks)
    /\ ~IsNone(c.neighborhood_config)
    /\ Val(c.neighborhood_config).load_from_cache

Datas(c) ==
    UNION { { [records |-> r, neighbors |-> nb, n_samples |-> n, batch_size |-> b] :
                nb \in IF ReadsCache(c)
                       THEN Caches(r, Val(c.neighborhood_config).n_perturbation_list)
                       ELSE {None},
                n \in {None} \cup {Some(k) : k \in 1..Len(r)},
                b \in {1, 2} } : r \in Records }

Init ==
    /\ config \in Configs
    /\ data \in Datas(config)
    /\ pc = "main"
    /\ target = "none"
    /\ ref_models = None
    /\ models = ModelsInit
    /\ attackers = EmptyDict
    /\ neighbors = None
    /\ results = <<>>
    /\ batch = 0
    /\ refpos = 1
    /\ rpos = 0
    /\ predictions = <<>>
    /\ samples = <<>>
    /\ run = 0
    /\ ncalls = 0
    /\ ret = NoRet
    /\ log = <<>>

CacheFlagsConflictNever(c) ==
    /\ ~IsNone(c.neighborhood_config)
    /\ Val(c.neighborhood_config).load_from_cache
    /\ ~Val(c.neighborhood_config).load_from_cache

\* lines 265-269: load_from_cache and dump_cache must not both be set
CacheFlagsConflict(c) ==
    /\ ~IsNone(c.neighborhood_config)
    /\ Val(c.neighborhood_config).load_from_cache
    /\ Val(c.neighborhood_config).dump_cache

CheckConfig ==
    /\ pc = "main"
    /\ IF CacheFlagsConflict(config)
       THEN /\ pc' = "raised"
            /\ log' = Append(log, Event("raise", <<"ValueError">>, At("main"),
                                         None, None, None, NoKwargs))
       ELSE /\ pc' = "models"
            /\ log' = log
    /\ UNCHANGED <<config, data, target, ref_models, models, attackers, neighbors,
                   results, batch, refpos, rpos, predictions, samples, run,
                   ncalls, ret>>

\* lines 272-282: base_model and ref_models
ConstructModels ==
    /\ pc = "models"
    /\ target' = "constructed"
    /\ ref_models' =
          IF ~IsNone(config.ref_config)
             /\ REFERENCE_BASED \in Range(config.blackbox_attacks)
          THEN Some(Val(config.ref_config).models)
          ELSE None
    /\ pc' = "attackers"
    /\ UNCHANGED <<config, data, models, attackers, neighbors, results, batch,
                   refpos, rpos, predictions, samples, run, ncalls, ret, log>>

\* get_attacker(attack) for the attacks that get_attackers constructs: it has
\* no strategy class for an unimplemented identifier, so the lookup either
\* raises or hands back some constructor
GetAttackerOutcomes(attacks) ==
    IF Unimplemented(attacks) = {} THEN {"built"} ELSE {"built", "raised"}

\* line 285: attackers_dict = get_attackers(base_model, ref_models, config)
GetAttackers ==
    /\ pc = "attackers"
    /\ \E outcome \in GetAttackerOutcomes(RunnableAttacks(config.blackbox_attacks)) :
          IF outcome = "built"
          THEN /\ attackers' = get_attackers(ref_models, config)
               /\ pc' = "load_base"
               /\ log' = log
          ELSE /\ attackers' = attackers
               /\ pc' = "raised"
               /\ log' = Append(log, Event("raise", <<"ValueError">>, At("get_attackers"),
                                            None, None, None, NoKwargs))
    /\ UNCHANGED <<config, data, target, ref_models, models, neighbors, results,
                   batch, refpos, rpos, predictions, samples, run, ncalls, ret>>

\* line 298: base_model.load()
LoadBaseModel ==
    /\ pc = "load_base"
    /\ target' = "loaded"
    /\ pc' = "ready"
    /\ UNCHANGED <<config, data, ref_models, models, attackers, neighbors, results,
                   batch, refpos, rpos, predictions, samples, run, ncalls, ret, log>>

\* lines 94-98: the exception raised while reading the cache, or ""
LoadNeighborsError(c, d, keys) ==
    IF <<NEIGHBOR>> \notin Range(keys) THEN ""
    ELSE IF IsNone(c.neighborhood_config) THEN "AttributeError"
    ELSE IF Val(c.neighborhood_config).load_from_cache /\ IsNone(d.neighbors)
    THEN "KeyError"
    ELSE ""

\* lines 95-97: neighbors
LoadNeighbors(c, d, keys) ==
    IF <<NEIGHBOR>> \in Range(keys) /\ Val(c.neighborhood_config).load_from_cache
    THEN d.neighbors
    ELSE None

\* lines 361-368 and 83-98: the driver calls get_mia_scores
StartScoring ==
    /\ pc \in {"ready", "returned"}
    /\ run < MaxRuns
    /\ run' = run + 1
    /\ results' = <<>>
    /\ batch' = 0
    /\ refpos' = 1
    /\ rpos' = 0
    /\ LET err == LoadNeighborsError(config, data, attackers.keys)
       IN IF err # ""
          THEN /\ pc' = "raised"
               /\ neighbors' = None
               /\ log' = Append(log, Event("raise", <<err>>, [pass |-> "primary", run |-> run + 1],
                                            None, None, None, NoKwargs))
          ELSE /\ pc' = IF NumBatches(data) = 0 THEN "reference" ELSE "batches"
               /\ neighbors' = LoadNeighbors(config, data, attackers.keys)
               /\ log' = log
    /\ UNCHANGED <<config, data, target, ref_models, models, attackers,
                   predictions, samples, ncalls, ret>>

\* the state after a batch
CommitBatch(acc) ==
    /\ Commit(acc.w)
    /\ results' = acc.results
    /\ pc' = IF Raised(acc.w) THEN "raised"
             ELSE IF batch + 1 >= NumBatches(data) THEN "reference"
             ELSE "batches"

\* lines 102-189: one iteration of the batch loop
ScoreBatch ==
    /\ pc = "batches"
    /\ CommitBatch(
          DocumentLoop([w |-> World(attackers.obj, models, log, At("primary")),
                        results |-> results], 0,
                       BatchTexts(data.records, batch, data.batch_size),
                       [cfg |-> config, neighbors |-> neighbors,
                        keys |-> attackers.keys, batch |-> batch,
                        batch_size |-> data.batch_size, idx |-> 0]))
    /\ batch' = batch + 1
    /\ UNCHANGED <<config, data, target, ref_models, neighbors, refpos, rpos,
                   predictions, samples, run, ncalls>>

\* the reference model whose turn it is in `for name, _ in ref_models.items()`
RefPending == ~IsNone(ref_models) /\ refpos <= Len(Val(ref_models))

CurrentRefKey == RefKey(Val(ref_models)[refpos])

\* the state after one document of the reference pass
CommitReference(out) ==
    /\ Commit(out.w)
    /\ results' = [results EXCEPT ![rpos + 1] = out.r]
    /\ pc' = IF Raised(out.w) THEN "raised" ELSE "reference"

\* lines 200-208: one iteration of `for r in results`
ReferenceScore ==
    /\ pc = "reference"
    /\ RefPending
    /\ CurrentRefKey \in Range(attackers.keys)
    /\ rpos < Len(results)
    /\ CommitReference(
          ReferenceDocument(World(attackers.obj, models, log, At("reference")),
                            results[rpos + 1], CurrentRefKey, config))
    /\ rpos' = rpos + 1
    /\ UNCHANGED <<config, data, target, ref_models, neighbors, batch, refpos,
                   predictions, samples, run, ncalls>>

\* lines 195-197 and 210: attacker.unload() after the last document, or
\* `continue` when the key has no attacker
ReferenceUnload ==
    /\ pc = "reference"
    /\ RefPending
    /\ CurrentRefKey \in Range(attackers.keys) => rpos = Len(results)
    /\ IF CurrentRefKey \in Range(attackers.keys)
       THEN Commit([Unload(World(attackers.obj, models, log, At("reference")),
                           CurrentRefKey) EXCEPT !.raised = ret.raised,
                                                 !.score = ret.score])
       ELSE UNCHANGED <<attackers, models, log, ret>>
    /\ refpos' = refpos + 1
    /\ rpos' = 0
    /\ UNCHANGED <<config, data, pc, target, ref_models, neighbors, results, batch,
                   predictions, samples, run, ncalls>>

\* lines 216-225: aggregate and return
Aggregate ==
    /\ pc = "reference"
    /\ ~RefPending
    /\ IF AggregationFails(results)
       THEN /\ pc' = "raised"
            /\ log' = Append(log, Event("raise", <<"ValueError">>, At("aggregate"),
                                         None, None, None, NoKwargs))
            /\ UNCHANGED <<predictions, samples>>
       ELSE /\ pc' = "returned"
            /\ predictions' = AggregatePredictions(<<>>, results)
            /\ samples' = AggregateSamples(results)
            /\ log' = log
    /\ UNCHANGED <<config, data, target, ref_models, models, attackers, neighbors,
                   results, batch, refpos, rpos, run, ncalls, ret>>

Next ==
    \/ CheckConfig
    \/ ConstructModels
    \/ GetAttackers
    \/ LoadBaseModel
    \/ StartScoring
    \/ ScoreBatch
    \/ ReferenceScore
    \/ ReferenceUnload
    \/ Aggregate

Spec == Init /\ [][Next]_vars

---------------------------------------------------------------------------
(* Reading the call log *)

NewEvents == SubSeq(log', Len(log) + 1, Len(log'))

\* the step is one attack() call on strategy k
IsAttackStep(k) ==
    /\ Len(log') > Len(log)
    /\ log'[Len(log) + 1].op = "attack"
    /\ log'[Len(log) + 1].who = k

\* the event that ends the attack() call logged at p: its _attack or its
\* configuration error
OutcomeIndex(p) ==
    CHOOSE q \in (p + 1)..Len(log) :
        /\ log[q].op \in {"_attack", "raise"}
        /\ \A r \in (p + 1)..(q - 1) : log[r].op \notin {"_attack", "raise"}

HasOutcome(p) ==
    \E q \in (p + 1)..Len(log) : log[q].op \in {"_attack", "raise"}

\* a load() that the caller made itself, not one made by attack()
IsExplicitLoad(r) ==
    log[r].op = "load" /\ (r = 1 \/ log[r - 1].op # "attack")

---------------------------------------------------------------------------
(* Reading the outcome of a get_mia_scores run *)

Returned == pc = "returned"

\* v is the minimum of the sequence of scores
IsMinimumOf(v, scores) ==
    v \in Range(scores) /\ \A x \in Range(scores) : v <= x

\* the target model's loss on one scored substring
TargetLoss(substr) ==
    Sum(ModelProbabilities(TargetName,
                           IF config.pretokenized THEN Decode(substr) ELSE substr))

\* the position of document k's aggregate in predictions[attack]
PositionOf(k, attack) ==
    Cardinality({j \in 1..k : attack \in DOMAIN results[j]})

UnimplementedRequested == Range(config.blackbox_attacks) \ AllAttacks

NeighborRequested == <<NEIGHBOR>> \in Range(attackers.keys)

RequestedCounts == Range(Val(config.neighborhood_config).n_perturbation_list)

IsNeighborScoreKey(key) == Len(key) = 2 /\ key[1] = NEIGHBOR

IsRefKey(key) == Len(key) = 2 /\ key[1] = REFERENCE_BASED

LastRaised(err, pass) ==
    /\ pc = "raised"
    /\ Len(log) > 0
    /\ log[Len(log)].op = "raise"
    /\ log[Len(log)].who = <<err>>
    /\ log[Len(log)].at.pass = pass

---------------------------------------------------------------------------
(* C1: an attack identifier outside the implemented set does not make      *)
(* get_attackers raise, is left out of the attackers it builds, and is not  *)
(* a key of the PredictionTable that get_mia_scores returns; the           *)
(* implemented attacks of the list are still run.                           *)
C1_UnimplementedDropped ==
    /\ ~LastRaised("ValueError", "get_attackers")
    /\ \A a \in UnimplementedRequested : <<a>> \notin Range(attackers.keys)
    /\ Returned => \A a \in UnimplementedRequested : <<a>> \notin DOMAIN predictions
    /\ (Returned /\ Len(samples) > 0) =>
          \A a \in (Range(config.blackbox_attacks) \cap AllAttacks)
                    \ {REFERENCE_BASED, NEIGHBOR} :
             <<a>> \in DOMAIN predictions

---------------------------------------------------------------------------
(* C2: for every document and every attack identifier recorded for it, the *)
(* value in the PredictionTable is the minimum of the document's scores for *)
(* that attack (the lone score when there is one); the 'sample' and         *)
(* 'detokenized' entries are never aggregated.                              *)
C2_MinimumAggregate ==
    Returned =>
        /\ SampleKey \notin DOMAIN predictions
        /\ DetokenizedKey \notin DOMAIN predictions
        /\ \A k \in DOMAIN results :
             \A attack \in (DOMAIN results[k]) \ {SampleKey, DetokenizedKey} :
                /\ attack \in DOMAIN predictions
                /\ PositionOf(k, attack) <= Len(predictions[attack])
                /\ IsMinimumOf(predictions[attack][PositionOf(k, attack)],
                               results[k][attack])
                /\ Len(results[k][attack]) = 1 =>
                      predictions[attack][PositionOf(k, attack)] = results[k][attack][1]

\* a run returned a document with several different scores and a
\* pretokenized single-substring document
C2_Witness ==
    /\ Returned
    /\ \E k \in DOMAIN results :
          /\ Len(results[k][<<LOSS>>]) >= 2
          /\ results[k][<<LOSS>>][1] # results[k][<<LOSS>>][2]
          /\ predictions[<<LOSS>>][k] < results[k][<<LOSS>>][1]
    /\ \E k \in DOMAIN results :
          /\ Len(results[k][<<LOSS>>]) = 1
          /\ DetokenizedKey \in DOMAIN results[k]

---------------------------------------------------------------------------
(* C3: when get_mia_scores returns, every key of the PredictionTable holds *)
(* one aggregate per processed document, and the k-th aggregate and the     *)
(* k-th entry of samples belong to the k-th document of data["records"]:    *)
(* input order is kept, no document is skipped or duplicated.               *)
C3_OrderPreserved ==
    Returned =>
        /\ Len(samples) <= Len(data.records)
        /\ Len(samples) >= MinOf(NumSamples(data), Len(data.records))
        /\ Len(samples) = Len(results)
        /\ \A k \in DOMAIN samples :
              /\ samples[k] = Sample(config, data.records[k])
              /\ <<LOSS>> \in DOMAIN predictions
        /\ \A key \in DOMAIN predictions :
              /\ Len(predictions[key]) = Len(samples)
              /\ \A k \in DOMAIN samples :
                    /\ key \in DOMAIN results[k]
                    /\ IsMinimumOf(predictions[key][k], results[k][key])
                    /\ key = <<LOSS>> =>
                          IsMinimumOf(predictions[key][k],
                              [i \in DOMAIN samples[k] |-> TargetLoss(samples[k][i])])

\* two different documents were scored in two batches
C3_Witness ==
    /\ Returned
    /\ data.batch_size = 1
    /\ Len(samples) = 2
    /\ data.records[1] # data.records[2]
    /\ predictions[<<LOSS>>][1] # predictions[<<LOSS>>][2]
    /\ Cardinality(DOMAIN predictions) >= 2

---------------------------------------------------------------------------
(* C4: reference models with pairwise distinct identifiers each get their  *)
(* own key ref-<name>; the PredictionTable has one key per reference model, *)
(* holding one score per document computed from that model alone.           *)
C4_OneKeyPerReferenceModel ==
    (Returned /\ ~IsNone(ref_models) /\ Len(samples) > 0) =>
        LET names == Val(ref_models)
        IN /\ Cardinality({key \in DOMAIN predictions : IsRefKey(key)}) = Len(names)
           /\ \A n \in DOMAIN names :
                 LET key == <<REFERENCE_BASED, names[n][Len(names[n])]>>
                 IN /\ key \in DOMAIN predictions
                    /\ Len(predictions[key]) = Len(samples)
                    /\ \A k \in DOMAIN samples :
                          IsMinimumOf(predictions[key][k],
                              [i \in DOMAIN samples[k] |->
                                  TargetLoss(samples[k][i])
                                  - Sum(ModelProbabilities(names[n], samples[k][i]))])

---------------------------------------------------------------------------
(* C5 as stated: with the neighborhood attack configured, a loaded cache   *)
(* and dump_cache false give a key ne-n with one score per document for     *)
(* every requested n; with dump_cache true or no cache loaded, attack() is  *)
(* never called on the neighborhood strategy and no ne-n key appears.       *)
C5_AsStated ==
    (Returned /\ NeighborRequested) =>
        LET nc == Val(config.neighborhood_config)
        IN /\ (~IsNone(neighbors) /\ ~nc.dump_cache) =>
                 \A n \in RequestedCounts :
                    /\ <<NEIGHBOR, FormatInt(n)>> \in DOMAIN predictions
                    /\ Len(predictions[<<NEIGHBOR, FormatInt(n)>>]) = Len(samples)
           /\ (IsNone(neighbors) \/ nc.dump_cache) =>
                 /\ \A p \in DOMAIN log :
                       ~(log[p].op = "attack" /\ log[p].who = <<NEIGHBOR>>)
                 /\ \A key \in DOMAIN predictions : ~IsNeighborScoreKey(key)

(* C5, amended: the keys ne-n are present, one score per document, when    *)
(* the loaded cache is not empty, dump_cache is false and at least one      *)
(* document was scored; with dump_cache true, no cache loaded or an empty   *)
(* cache, attack() is never called on the neighborhood strategy and no ne-n *)
(* key appears.  In both cases the keys of the other attacks are there,     *)
(* one score per document.                                                  *)
C5_NeighborKeys ==
    (Returned /\ NeighborRequested) =>
        LET nc == Val(config.neighborhood_config)
            usable == ~IsNone(neighbors) /\ neighbors # << <<>> >> /\ ~nc.dump_cache
        IN /\ (usable /\ Len(samples) > 0) =>
                 \A n \in RequestedCounts :
                    /\ <<NEIGHBOR, FormatInt(n)>> \in DOMAIN predictions
                    /\ Len(predictions[<<NEIGHBOR, FormatInt(n)>>]) = Len(samples)
                    /\ \A k \in DOMAIN samples :
                          Len(results[k][<<NEIGHBOR, FormatInt(n)>>]) = Len(samples[k])
           /\ ~usable =>
                 /\ \A p \in DOMAIN log :
                       ~(log[p].op = "attack" /\ log[p].who = <<NEIGHBOR>>)
                 /\ \A key \in DOMAIN predictions : ~IsNeighborScoreKey(key)
           /\ Len(samples) > 0 =>
                 \A key \in {<<LOSS>>} \cup (Range(attackers.keys) \ {<<NEIGHBOR>>}) :
                    /\ key \in DOMAIN predictions
                    /\ Len(predictions[key]) = Len(samples)

\* a run with two perturbation counts and a complete cache returned
C5_Witness ==
    /\ Returned
    /\ NeighborRequested
    /\ Len(samples) = 2
    /\ <<NEIGHBOR, "5">> \in DOMAIN predictions
    /\ <<NEIGHBOR, "10">> \in DOMAIN predictions
    /\ Cardinality(DOMAIN predictions) >= 4

---------------------------------------------------------------------------
(* C6: when the loaded cache has no entry for a requested perturbation     *)
(* count, document or substring, no score is recorded and nothing is        *)
(* raised: the run completes.                                               *)
C6_MissingEntrySkipped ==
    ~(/\ ~IsNone(neighbors)
      /\ \/ LastRaised("KeyError", "primary")
         \/ LastRaised("IndexError", "primary"))

---------------------------------------------------------------------------
\* the number of substrings the primary pass of one run scores
ScoredSubstrings ==
    Sum([k \in 1..MinOf(Len(data.records), NumBatches(data) * data.batch_size) |->
            Len(Sample(config, data.records[k]))])

(* C7: a reference strategy's attack() is only called in the reference     *)
(* pass, after the primary pass of that run has computed the loss of every  *)
(* substring of every document; it is passed probs=None and the loss the    *)
(* primary pass stored for that text; the reference pass never calls the    *)
(* target model's get_probabilities.                                        *)
C7_ReferenceAfterPrimary ==
    /\ \A p \in DOMAIN log :
          (log[p].op = "attack" /\ IsRefKey(log[p].who)) =>
             /\ log[p].at.pass = "reference"
             /\ log[p].probs = None
             /\ \A q \in DOMAIN log :
                   (log[q].at.pass = "primary" /\ log[q].at.run = log[p].at.run)
                   => q < p
             /\ Cardinality({q \in 1..p : /\ log[q].op = "get_ll"
                                          /\ log[q].who = TargetName
                                          /\ log[q].at.pass = "primary"
                                          /\ log[q].at.run = log[p].at.run})
                  = ScoredSubstrings
             /\ \E q \in 1..p :
                   /\ log[q].op = "get_ll"
                   /\ log[q].who = TargetName
                   /\ log[q].at = [pass |-> "primary", run |-> log[p].at.run]
                   /\ log[q].document = log[p].document
                   /\ log[p].kwargs.loss = <<Sum(log[q].probs[1])>>
    /\ \A p \in DOMAIN log :
          log[p].at.pass = "reference" =>
             ~(log[p].op = "get_probabilities" /\ log[p].who = TargetName)

\* two reference models scored two documents, one of them with two substrings
C7_Witness ==
    /\ Returned
    /\ Len(results) = 2
    /\ \E k \in DOMAIN results : Len(results[k][SampleKey]) = 2
    /\ \E p \in DOMAIN log, q \in DOMAIN log :
          /\ log[p].op = "attack" /\ log[p].who = <<REFERENCE_BASED, "A">>
          /\ log[q].op = "attack" /\ log[q].who = <<REFERENCE_BASED, "B">>

---------------------------------------------------------------------------
\* lines 265-266: the two cache flags are both set
BothCacheFlags ==
    /\ config.neighborhood_config # None
    /\ config.neighborhood_config[1].load_from_cache
    /\ config.neighborhood_config[1].dump_cache

(* C8: with load_from_cache and dump_cache both set, the driver raises a   *)
(* configuration error before any model is constructed or loaded and before *)
(* any get_mia_scores, get_probabilities, get_ll or attack() call.          *)
C8_ConflictRaisedFirst ==
    (BothCacheFlags /\ pc # "main") =>
        /\ pc = "raised"
        /\ log = <<Event("raise", <<"ValueError">>, [pass |-> "main", run |-> 0],
                          None, None, None, NoKwargs)>>
        /\ target = "none"
        /\ ref_models = None
        /\ attackers = EmptyDict
        /\ \A m \in DOMAIN models : ~models[m].loaded
        /\ run = 0

\* the driver stopped on the conflicting flags
C8_Witness ==
    /\ BothCacheFlags
    /\ pc = "raised"
    /\ Len(log) = 1

---------------------------------------------------------------------------
\* one attack() call: a load only when the strategy was not loaded, before
\* the scoring, and is_loaded true afterwards
C9_LazyLoadStep ==
    IsAttackStep(Self) =>
        LET new == NewEvents
            loads == {i \in DOMAIN new : new[i].op = "load"}
            scorings == {i \in DOMAIN new : new[i].op = "_attack"}
        IN /\ attackers'.obj[Self].is_loaded
           /\ ~attackers.obj[Self].is_loaded =>
                 /\ Cardinality(loads) = 1
                 /\ \A i \in loads, j \in scorings : i < j
           /\ attackers.obj[Self].is_loaded => loads = {}

\* two loads of one model are separated by an unload() or a load() by the caller
C9_LoadedAtMostOnce ==
    \A p \in DOMAIN log, q \in DOMAIN log :
        (/\ p < q
         /\ log[p].op = "model.load"
         /\ log[q].op = "model.load"
         /\ log[p].who = log[q].who)
        => \E r \in (p + 1)..q : log[r].op = "unload" \/ IsExplicitLoad(r)

(* C9: attack() on a strategy that is not loaded calls load() before the   *)
(* scoring function _attack runs and leaves is_loaded true; attack() on a   *)
(* loaded strategy does not call load(); so over attack() calls with no     *)
(* unload() (and no load() by the caller) in between, each owned model is   *)
(* loaded at most once.                                                     *)
C9_LazyLoad == [][C9_LazyLoadStep]_vars /\ []C9_LoadedAtMostOnce

\* two attack() calls in a row on a strategy that owns models: the first
\* loads them, the second does not
C9_Witness ==
    \E p \in DOMAIN log :
        /\ p + 1 < Len(log)
        /\ log[p].op = "attack"
        /\ log[p + 1].op = "load"
        /\ log[p + 2].op = "model.load"
        /\ \E q \in (p + 3)..(Len(log) - 1) :
              /\ log[q].op = "attack"
              /\ log[q + 1].op = "_attack"
              /\ \A r \in p..q : log[r].op # "unload"
        /\ attackers.obj[Self].is_loaded

---------------------------------------------------------------------------
(* C10: with pretokenized input and no detokenized_sample (absent or None) *)
(* attack() raises a configuration error and never calls _attack; without   *)
(* pretokenized input it never raises that error and calls _attack with the *)
(* raw document; with pretokenized input and a detokenized_sample, _attack  *)
(* gets the detokenized text as document and the token ids as tokens; the   *)
(* probs are always the given ones.                                         *)
C10_Pretokenized ==
    \A p \in DOMAIN log :
        log[p].op = "attack" =>
            LET call == log[p]
                pretokenized == attackers.obj[call.who].config.pretokenized
                missing == \/ "detokenized_sample" \notin call.kwargs.keys
                           \/ call.kwargs.detokenized_sample = None
                out == log[OutcomeIndex(p)]
            IN /\ HasOutcome(p)
               /\ (pretokenized /\ missing) =>
                     out.op = "raise" /\ out.who = <<"ValueError">>
               /\ ~pretokenized =>
                     /\ out.op = "_attack"
                     /\ out.document = call.document
                     /\ out.tokens = None
                     /\ out.probs = call.probs
               /\ (pretokenized /\ ~missing) =>
                     /\ out.op = "_attack"
                     /\ out.document = call.kwargs.detokenized_sample[1]
                     /\ out.tokens = <<call.document>>
                     /\ out.probs = call.probs

\* a pretokenized strategy was attacked once without and once with a
\* detokenized_sample
C10_Witness ==
    /\ attackers.obj[Self].config.pretokenized
    /\ \E p \in DOMAIN log :
          /\ log[p].op = "attack"
          /\ "detokenized_sample" \notin log[p].kwargs.keys
          /\ log[OutcomeIndex(p)].op = "raise"
    /\ \E p \in DOMAIN log :
          /\ log[p].op = "attack"
          /\ log[p].kwargs.detokenized_sample # None
          /\ log[OutcomeIndex(p)].op = "_attack"
          /\ log[OutcomeIndex(p)].tokens = <<TestDocument>>

---------------------------------------------------------------------------
\* the events of the step that follow its _attack event
AfterAttackEvent(new) ==
    LET a == CHOOSE i \in DOMAIN new : new[i].op = "_attack"
    IN SubSeq(new, a + 1, Len(new))

\* the get_ll calls made on model m among the events evs
GetLLCalls(evs, m) == {i \in DOMAIN evs : evs[i].op = "get_ll" /\ evs[i].who = m}

\* the perturbation models a strategy owns
OwnedPerturbModels(attacker) ==
    IF IsNone(attacker.perturb_models) THEN {} ELSE Val(attacker.perturb_models)

\* the sum of the losses the models of S report on the document
RECURSIVE TotalLoss(_, _)
TotalLoss(S, document) ==
    IF S = {} THEN 0
    ELSE LET m == CHOOSE x \in S : TRUE
         IN ModelLL(m, document, None) + TotalLoss(S \ {m}, document)

(* C11: a PerturbationAttack scoring returns the loss minus the mean of    *)
(* the losses its perturbation models report on the same document (L - L_p  *)
(* with one model); the target's get_ll is called once when no loss is      *)
(* supplied and not at all when one is; each perturbation model's get_ll is *)
(* called exactly once, with probs=None.                                    *)
C11_PerturbationStep ==
    (/\ IsAttackStep(Self)
     /\ attackers.obj[Self].kind = PERTURBATION_BASED
     /\ \E i \in DOMAIN NewEvents : NewEvents[i].op = "_attack") =>
        LET new == NewEvents
            call == new[CHOOSE i \in DOMAIN new : new[i].op = "_attack"]
            evs == AfterAttackEvent(new)
            owned == OwnedPerturbModels(attackers.obj[Self])
            n == Cardinality(owned)
            supplied == KwargsGetLoss(call.kwargs)
            loss == IF IsNone(supplied)
                    THEN ModelLL(TargetName, call.document, call.probs)
                    ELSE Val(supplied)
        IN /\ Cardinality(GetLLCalls(evs, TargetName))
                 = IF IsNone(supplied) THEN 1 ELSE 0
           /\ \A i \in GetLLCalls(evs, TargetName) :
                 /\ evs[i].document = call.document
                 /\ evs[i].probs = call.probs
                 /\ evs[i].tokens = call.tokens
           /\ \A m \in owned :
                 /\ Cardinality(GetLLCalls(evs, m)) = 1
                 /\ \A i \in GetLLCalls(evs, m) :
                       /\ evs[i].probs = None
                       /\ evs[i].document = call.document
                       /\ evs[i].tokens = call.tokens
           /\ \A i \in DOMAIN evs :
                 evs[i].op = "get_ll" => evs[i].who \in owned \cup {TargetName}
           /\ n > 0 =>
                 /\ ret'.raised = ""
                 /\ ret'.score.den > 0
                 /\ ret'.score.num * n
                       = ret'.score.den * (n * loss - TotalLoss(owned, call.document))
           /\ n = 1 =>
                 \A m \in owned :
                    /\ ret'.score.den = 1
                    /\ ret'.score.num = loss - ModelLL(m, call.document, None)

C11_PerturbationScore == [][C11_PerturbationStep]_vars

\* a strategy with two perturbation models scored a document without a
\* supplied loss, and returned a score that is not a whole number
C11_Witness ==
    /\ attackers.obj[Self].kind = PERTURBATION_BASED
    /\ ret.raised = ""
    /\ ret.score.den = 2
    /\ ret.score.num % 2 = 1
    /\ \E p \in DOMAIN log :
          /\ p + 3 <= Len(log)
          /\ log[p].op = "_attack"
          /\ log[p].kwargs.loss = None
          /\ log[p + 1].op = "get_ll" /\ log[p + 1].who = TargetName
          /\ log[p + 2].op = "get_ll" /\ log[p + 2].who \in {<<"P1">>, <<"P2">>}
          /\ log[p + 3].op = "get_ll" /\ log[p + 3].who \in {<<"P1">>, <<"P2">>}
          /\ log[p + 2].who # log[p + 3].who
          /\ p + 3 = Len(log)

---------------------------------------------------------------------------
(* C12: a perturbation-based strategy without perturbation models (an      *)
(* empty set or none) cannot be constructed, so no such instance exists and *)
(* its scoring never divides by zero.                                       *)
C12_NoEmptyPerturbation ==
    /\ \A k \in DOMAIN attackers.obj :
          attackers.obj[k].kind = PERTURBATION_BASED =>
             OwnedPerturbModels(attackers.obj[k]) # {}
    /\ ret.raised # "ZeroDivisionError"

---------------------------------------------------------------------------
(* C13: in full_doc mode a document is scored as exactly one substring,    *)
(* the whole document; otherwise its substring sequence is cut to the first *)
(* max_substrs substrings, so at most max_substrs substrings are scored.    *)
C13_FullDocOneSubstring ==
    \A k \in DOMAIN results :
        LET doc == data.records[k]
            scored == results[k][SampleKey]
        IN /\ config.full_doc => scored = <<doc>>
           /\ ~config.full_doc =>
                 /\ Len(scored) <= config.max_substrs
                 /\ scored = [i \in 1..MinOf(config.max_substrs, Len(doc)) |-> <<doc[i]>>]

---------------------------------------------------------------------------
(* C14: for 1 <= n_samples <= len(data["records"]) and any batch size, the *)
(* batch loop processes exactly the first n_samples documents: samples and  *)
(* every PredictionTable sequence have length n_samples, also when          *)
(* n_samples is not a multiple of batch_size.                               *)
C14_ExactlyNSamples ==
    (/\ Returned
     /\ ~IsNone(data.n_samples)
     /\ 1 <= Val(data.n_samples)
     /\ Val(data.n_samples) <= Len(data.records)) =>
        /\ Len(samples) = Val(data.n_samples)
        /\ \A k \in DOMAIN samples : samples[k] = Sample(config, data.records[k])
        /\ \A key \in DOMAIN predictions :
              Len(predictions[key]) = Val(data.n_samples)

---------------------------------------------------------------------------
(* C15: the reference pass completes without a configuration error, with   *)
(* pretokenized input or without, and gives every document record exactly   *)
(* one reference score per substring under each reference model's key.      *)
C15_ReferencePassCompletes ==
    /\ ~LastRaised("ValueError", "reference")
    /\ (Returned /\ ~IsNone(ref_models)) =>
          \A n \in DOMAIN Val(ref_models), k \in DOMAIN results :
             /\ RefKey(Val(ref_models)[n]) \in DOMAIN results[k]
             /\ Len(results[k][RefKey(Val(ref_models)[n])])
                   = Len(results[k][SampleKey])

---------------------------------------------------------------------------
\* the reference models that are loaded
LoadedReferenceModels ==
    IF IsNone(ref_models) THEN {}
    ELSE {m \in Range(Val(ref_models)) : models[m].loaded}

\* the strategy that unload() is called on at p was loaded since its last unload()
UnloadsALoaded(p) ==
    \E q \in 1..(p - 1) :
        /\ log[q].op = "load"
        /\ log[q].who = log[p].who
        /\ \A r \in (q + 1)..(p - 1) :
              ~(log[r].op = "unload" /\ log[r].who = log[p].who)

(* C16: during a get_mia_scores run at most one reference model is loaded; *)
(* a reference strategy is loaded by its first attack() of the reference    *)
(* pass and unloaded before the next strategy's first attack(); when the    *)
(* run returns every reference model is unloaded; unload() is only called   *)
(* on a reference strategy that is loaded, also with zero documents.        *)
C16_OneReferenceLoaded ==
    /\ Cardinality(LoadedReferenceModels) <= 1
    /\ Returned => LoadedReferenceModels = {}
    /\ \A p \in DOMAIN log :
          (log[p].op = "load" /\ IsRefKey(log[p].who)) =>
             /\ log[p].at.pass = "reference"
             /\ p > 1
             /\ log[p - 1].op = "attack"
             /\ log[p - 1].who = log[p].who
    /\ \A p \in DOMAIN log :
          (log[p].op = "unload" /\ IsRefKey(log[p].who)) => UnloadsALoaded(p)

---------------------------------------------------------------------------
\* the get_probabilities calls of the primary pass: one opens each substring
PrimaryProbs ==
    {p \in DOMAIN log : /\ log[p].op = "get_probabilities"
                        /\ log[p].at.pass = "primary"}

\* the first event after p that belongs to another substring, pass or run
SegmentEnd(p) ==
    LET later == {q \in (p + 1)..Len(log) :
                     \/ log[q].op = "get_probabilities"
                     \/ log[q].at # log[p].at}
    IN IF later = {} THEN Len(log) + 1
       ELSE CHOOSE q \in later : \A r \in later : q <= r

\* the events of the substring opened at p
Segment(p) == (p + 1)..(SegmentEnd(p) - 1)

\* the strategies the primary pass calls once for every substring
CalledPerSubstring ==
    {key \in Range(attackers.keys) :
        ~IsRefKey(key) /\ key \notin {<<LOSS>>, <<NEIGHBOR>>}}

(* C17: in the primary pass every scored substring gets one                *)
(* get_probabilities and one get_ll call on the target model; those         *)
(* probabilities and that loss are what every non-reference, non-Loss       *)
(* strategy is called with; the loss is appended under the Loss identifier  *)
(* whether or not Loss is configured, so each document's Loss sequence has  *)
(* one entry per substring, in substring order.                             *)
C17_ProbabilitiesOnce ==
    /\ \A p \in PrimaryProbs :
          LET s_tk_probs == ModelProbabilities(TargetName, log[p].document)
          IN /\ log[p].who = TargetName
             /\ p + 1 <= Len(log)
             /\ log[p + 1].op = "get_ll"
             /\ log[p + 1].who = TargetName
             /\ log[p + 1].document = log[p].document
             /\ log[p + 1].tokens = log[p].tokens
             /\ log[p + 1].probs = Some(s_tk_probs)
             /\ \A q \in Segment(p) \ {p + 1} :
                   ~(/\ log[q].who = TargetName
                     /\ log[q].op \in {"get_ll", "get_probabilities"})
             /\ \A q \in Segment(p) :
                   log[q].op = "attack" =>
                      /\ log[q].probs = Some(s_tk_probs)
                      /\ log[q].kwargs.loss = Some(Sum(s_tk_probs))
                      /\ "loss" \in log[q].kwargs.keys
                      /\ ~IsRefKey(log[q].who)
                      /\ log[q].who # <<LOSS>>
             /\ (\A q \in Segment(p) : log[q].op # "raise") =>
                   \A key \in CalledPerSubstring :
                      Cardinality({q \in Segment(p) : /\ log[q].op = "attack"
                                                      /\ log[q].who = key}) = 1
    /\ \A p \in DOMAIN log :
          (log[p].at.pass = "primary" /\ log[p].who = TargetName /\ log[p].op = "get_ll")
          => (p - 1) \in PrimaryProbs
    /\ pc \in {"batches", "reference", "returned"} =>
          /\ Cardinality({p \in PrimaryProbs : log[p].at.run = run})
                = Sum([k \in DOMAIN results |-> Len(results[k][SampleKey])])
          /\ \A k \in DOMAIN results :
                /\ <<LOSS>> \in DOMAIN results[k]
                /\ results[k][<<LOSS>>]
                      = [i \in DOMAIN results[k][SampleKey] |->
                            TargetLoss(results[k][SampleKey][i])]

\* a run without Loss among its attacks scored a document of two substrings
\* with two strategies and recorded two different losses for it
C17_Witness ==
    /\ Returned
    /\ LOSS \notin Range(config.blackbox_attacks)
    /\ Cardinality(CalledPerSubstring) >= 1
    /\ <<NEIGHBOR, "5">> \in DOMAIN predictions
    /\ \E k \in DOMAIN results :
          /\ Len(results[k][<<LOSS>>]) = 2
          /\ results[k][<<LOSS>>][1] # results[k][<<LOSS>>][2]
    /\ <<LOSS>> \in DOMAIN predictions

---------------------------------------------------------------------------
\* the document (1-based position in data["records"]) and the substring that
\* the j-th scored substring of a run belongs to
RECURSIVE Locate(_, _)
Locate(j, d) ==
    IF j <= Len(Sample(config, data.records[d]))
    THEN [d |-> d, i |-> j]
    ELSE Locate(j - Len(Sample(config, data.records[d])), d + 1)

\* the rank of the substring opened at p among those of its run
Ordinal(p) ==
    Cardinality({q \in PrimaryProbs : q <= p /\ log[q].at.run = log[p].at.run})

\* the attack() calls on the neighborhood strategy for the substring opened at p
NeighborCalls(p) ==
    {q \in Segment(p) : log[q].op = "attack" /\ log[q].who = <<NEIGHBOR>>}

(* C18: in load mode the neighbors handed to the neighborhood strategy for *)
(* perturbation count n, the document at global position d of               *)
(* data["records"] and its substring i are exactly cache[n][d][i], for any  *)
(* batch size; the position inside the batch is never used instead.         *)
C18_GlobalDocumentIndex ==
    \A p \in PrimaryProbs :
        \A q \in NeighborCalls(p) :
            LET at == Locate(Ordinal(p), 1)
                rank == Cardinality({r \in NeighborCalls(p) : r <= q})
                n == Val(config.neighborhood_config).n_perturbation_list[rank]
            IN /\ "substr_neighbors" \in log[q].kwargs.keys
               /\ ~IsNone(data.neighbors)
               /\ n \in DOMAIN Val(data.neighbors)
               /\ at.d \in DOMAIN Val(data.neighbors)[n]
               /\ at.i \in DOMAIN Val(data.neighbors)[n][at.d]
               /\ log[q].kwargs.substr_neighbors
                     = Some(Val(data.neighbors)[n][at.d][at.i])

\* the second document, scored in a second batch, was given its own neighbors
\* for both perturbation counts
C18_Witness ==
    /\ Returned
    /\ data.batch_size = 1
    /\ Len(data.records) = 2
    /\ \E q \in DOMAIN log :
          /\ log[q].op = "attack"
          /\ log[q].who = <<NEIGHBOR>>
          /\ log[q].kwargs.substr_neighbors = Some(NeighborValue(5, 2, 1))
    /\ \E q \in DOMAIN log :
          /\ log[q].op = "attack"
          /\ log[q].who = <<NEIGHBOR>>
          /\ log[q].kwargs.substr_neighbors = Some(NeighborValue(10, 2, 2))

---------------------------------------------------------------------------
\* the models a strategy owns: its reference model and its perturbation models
OwnedBy(attacker) ==
    (IF IsNone(attacker.ref_model) THEN {} ELSE {Val(attacker.ref_model)})
        \cup OwnedPerturbModels(attacker)

\* is_loaded agrees with the owned models: all loaded, or none
LoadedConsistently(attacker) ==
    /\ attacker.is_loaded <=> \A m \in OwnedBy(attacker) : models[m].loaded
    /\ ~attacker.is_loaded <=> \A m \in OwnedBy(attacker) : ~models[m].loaded

\* a step that runs _attack leaves every owned model loaded, and loads or
\* unloads nothing once _attack has started
ScoresWithModelsLoaded ==
    (IsAttackStep(Self) /\ \E i \in DOMAIN NewEvents : NewEvents[i].op = "_attack") =>
        /\ \A m \in OwnedBy(attackers.obj[Self]) : models'[m].loaded
        /\ \A i \in DOMAIN AfterAttackEvent(NewEvents) :
              AfterAttackEvent(NewEvents)[i].op \notin
                 {"load", "unload", "model.load", "model.unload"}

\* whenever the strategy owns a model, its flag and its models agree
OwnersLoadedConsistently ==
    OwnedBy(attackers.obj[Self]) # {} => LoadedConsistently(attackers.obj[Self])

(* C19: for a strategy that owns a reference model and/or perturbation     *)
(* models, after any sequence of load(), unload() and attack() calls        *)
(* is_loaded is false exactly when none of its models is loaded and true    *)
(* exactly when all are; so every run of _attack has all owned models       *)
(* loaded, also on an attack() that follows an unload().                    *)
C19_LoadedIffModelsLoaded ==
    []OwnersLoadedConsistently /\ [][ScoresWithModelsLoaded]_vars

\* a strategy with a reference model and a perturbation model was unloaded
\* and then attacked: the attack loaded both models again before scoring
C19_Witness ==
    /\ Cardinality(OwnedBy(attackers.obj[Self])) = 2
    /\ attackers.obj[Self].is_loaded
    /\ \E p \in DOMAIN log :
          /\ log[p].op = "unload"
          /\ \E q \in (p + 1)..Len(log) : log[q].op = "model.unload"
          /\ \E q \in (p + 1)..Len(log) :
                /\ q + 4 <= Len(log)
                /\ log[q].op = "attack"
                /\ log[q + 1].op = "load"
                /\ log[q + 2].op = "model.load"
                /\ log[q + 3].op = "model.load"
                /\ log[q + 4].op = "_attack"

---------------------------------------------------------------------------
\* an attack() call that ends in the configuration error loads nothing and
\* leaves is_loaded and the owned models as they were
FailingAttackDoesNoModelWork ==
    (/\ IsAttackStep(Self)
     /\ \E i \in DOMAIN NewEvents : /\ NewEvents[i].op = "raise"
                                    /\ NewEvents[i].who = <<"ValueError">>) =>
        /\ \A i \in DOMAIN NewEvents : NewEvents[i].op \notin {"load", "model.load"}
        /\ attackers'.obj[Self].is_loaded = attackers.obj[Self].is_loaded
        /\ models' = models

(* C20: a configuration error raised by attack() (pretokenized input       *)
(* without detokenized_sample) comes before any model work: the failing     *)
(* call invokes no owned model's load() and leaves is_loaded and the loaded *)
(* state of the owned models exactly as they were.                          *)
C20_ErrorBeforeModelWork == [][FailingAttackDoesNoModelWork]_vars

====
